---- MODULE Spec2Model ----
(***************************************************************************)
(* Model of scripts/generate_tiles.py: a single-pass batch pipeline that   *)
(* fetches article rows, builds a GeoJSON FeatureCollection, writes it to  *)
(* articles.geojson, runs tippecanoe to produce articles.pmtiles, uploads  *)
(* the archive to a storage bucket and removes both local files in a       *)
(* finally block.                                                          *)
(*                                                                         *)
(* Two specifications are given.  SpecBuild explores the feature builder   *)
(* fetch_data_as_geojson over bounded row sequences.  Spec explores main() *)
(* with every step free to fail, over several consecutive runs of the      *)
(* script in one working directory.                                        *)
(***************************************************************************)
EXTENDS Integers, Sequences, FiniteSets, TLC

VARIABLES
    pc,            \* position of the process: init, fetch, save, tiles, upload, cleanup, exited
    run,           \* ordinal of the current run of the script in this working directory
    env,           \* os.environ values of SUPABASE_URL / SUPABASE_SECRET_KEY
    rows,          \* resp.data of the fetch of this run (None before the fetch)
    geojson_data,  \* value returned by fetch_data_as_geojson (None before the fetch)
    stderr,        \* row indices for which the builder printed the parse warning
    files,         \* local working directory: filename -> content
    bucket,        \* remote object tiles/articles.pmtiles
    calls,         \* pipeline steps started in this run, each with the error it raised
    returncode,    \* exit status of the tippecanoe subprocess in this run
    compiledFrom,  \* content of articles.geojson when tippecanoe read it in this run
    exc,           \* exception propagating out of main()
    exitStatus,    \* exit status of the process
    removeLog,     \* os.remove calls of cleanup_files in this run with their results
    leftover       \* files that were already on disk when this run started

vars == <<pc, run, env, rows, geojson_data, stderr, files, bucket, calls,
          returncode, compiledFrom, exc, exitStatus, removeLog, leftover>>

(***************************************************************************)
(* Bounds of the model.                                                    *)
(***************************************************************************)
MaxRows == 2      \* longest fetched row sequence
MaxStrLen == 2    \* longest string-encoded location
MaxRuns == 2      \* consecutive runs of the script in the same directory

(***************************************************************************)
(* Python values.  Every value is a record [t, v]: t is the Python type    *)
(* name and v the payload.  A str is a sequence of one-character strings.  *)
(***************************************************************************)
None == [t |-> "NoneType", v |-> <<>>]
PyStr(s) == [t |-> "str", v |-> s]
PyInt(n) == [t |-> "int", v |-> n]
PyList(s) == [t |-> "list", v |-> s]
PyDict(s) == [t |-> "dict", v |-> s]

\* Python truth value testing, as applied by `if`, `not` and all().
Truthy(x) ==
    CASE x.t = "NoneType" -> FALSE
      [] x.t = "int" -> x.v # 0
      [] OTHER -> Len(x.v) > 0

\* Truth value of a dict held as a record: false only when it has no key.
DictTruthy(d) == DOMAIN d # {}

\* dict.get(key): the value, or None when the key is absent.
Get(row, key) == IF key \in DOMAIN row THEN row[key] ELSE None

(***************************************************************************)
(* Configuration constants.                                                *)
(***************************************************************************)
OUTPUT_PMTILES_FILE == "articles.pmtiles"
OUTPUT_GEOJSON_FILE == "articles.geojson"
FileNames == {OUTPUT_GEOJSON_FILE, OUTPUT_PMTILES_FILE}

\* "--force" is in TIPPECANOE_OPTIONS: an existing output is overwritten.
TIPPECANOE_FORCE == TRUE

\* file_options["upsert"] == "true": an existing object is replaced.
UPLOAD_UPSERT == TRUE

(***************************************************************************)
(* json.loads on a str, for the JSON subset made of numbers written with   *)
(* the digit 1 and arrays.  A recursive-descent parse; any other text, the *)
(* empty string and trailing characters raise JSONDecodeError.             *)
(***************************************************************************)
ParseFail == [ok |-> FALSE, val |-> None, next |-> 0]

RECURSIVE DigitsEnd(_, _)
DigitsEnd(s, i) ==
    IF i <= Len(s) /\ s[i] = "1" THEN DigitsEnd(s, i + 1) ELSE i

RECURSIVE NumVal(_, _, _)
NumVal(s, i, j) ==
    IF i >= j THEN 0 ELSE 10 * NumVal(s, i, j - 1) + 1

RECURSIVE ParseValue(_, _)
RECURSIVE ParseElements(_, _, _)
ParseValue(s, i) ==
    IF i > Len(s) THEN ParseFail
    ELSE IF s[i] = "1" THEN
        LET j == DigitsEnd(s, i)
        IN  [ok |-> TRUE, val |-> PyInt(NumVal(s, i, j)), next |-> j]
    ELSE IF s[i] = "[" THEN
        IF i + 1 <= Len(s) /\ s[i + 1] = "]"
        THEN [ok |-> TRUE, val |-> PyList(<<>>), next |-> i + 2]
        ELSE ParseElements(s, i + 1, <<>>)
    ELSE ParseFail

ParseElements(s, i, acc) ==
    LET r == ParseValue(s, i)
    IN  IF ~r.ok \/ r.next > Len(s) THEN ParseFail
        ELSE IF s[r.next] = "]"
             THEN [ok |-> TRUE, val |-> PyList(Append(acc, r.val)), next |-> r.next + 1]
        ELSE IF s[r.next] = ","
             THEN ParseElements(s, r.next + 1, Append(acc, r.val))
        ELSE ParseFail

\* [ok |-> FALSE] stands for json.JSONDecodeError being raised.
json_loads(s) ==
    LET r == ParseValue(s, 1)
    IN  IF r.ok /\ r.next = Len(s) + 1
        THEN [ok |-> TRUE, val |-> r.val]
        ELSE [ok |-> FALSE, val |-> None]

(***************************************************************************)
(* fetch_data_as_geojson: the feature builder.                             *)
(***************************************************************************)
\* The geometry of one row and whether the parse warning is printed.
location_geom(location_data) ==
    IF Truthy(location_data) THEN
        IF location_data.t = "str" THEN
            LET r == json_loads(location_data.v)
            IN  IF r.ok THEN [geom |-> r.val, warn |-> FALSE]
                ELSE [geom |-> None, warn |-> TRUE]
        ELSE [geom |-> location_data, warn |-> FALSE]
    ELSE [geom |-> None, warn |-> FALSE]

make_feature_from_one(i, row, geom) ==
    [type |-> "Feature", id |-> i + 1, geometry |-> geom,
     properties |-> [url |-> Get(row, "url"), title |-> Get(row, "title"),
                     marker |-> Get(row, "marker")]]

\* The feature dict built for row i (zero-based) with geometry geom.
make_feature(i, row, geom) ==
    [type |-> "Feature", id |-> i, geometry |-> geom,
     properties |-> [url |-> Get(row, "url"), title |-> Get(row, "title"),
                     marker |-> Get(row, "marker")]]

\* The loop over enumerate(rows): features appended in order, warnings printed.
RECURSIVE build_loop(_, _, _, _)
build_loop(rws, i, features, warned) ==
    IF i >= Len(rws) THEN [features |-> features, warned |-> warned]
    ELSE LET row == rws[i + 1]
             g == location_geom(Get(row, "location"))
         IN  build_loop(rws, i + 1,
                        Append(features, make_feature(i, row, g.geom)),
                        IF g.warn THEN warned \cup {i} ELSE warned)

\* resp is the list of row mappings; the result is the FeatureCollection
\* together with the warnings written to stderr.
fetch_data_as_geojson(resp) ==
    LET b == build_loop(resp.v, 0, <<>>, {})
    IN  [collection |-> [type |-> "FeatureCollection", features |-> b.features],
         warned |-> b.warned]

(***************************************************************************)
(* Inputs of the builder: rows over bounded locations and property bags.   *)
(***************************************************************************)
Alphabet == {"[", "]", "1"}

RECURSIVE StringsOfLen(_)
StringsOfLen(n) ==
    IF n = 0 THEN {<<>>}
    ELSE {Append(s, c) : s \in StringsOfLen(n - 1), c \in Alphabet}

Strings == UNION {StringsOfLen(n) : n \in 0..MaxStrLen}

Point == PyDict(<< <<"type", "Point">>, <<"coordinates", <<1, 2>> >> >>)

\* Already-structured location values.
StructuredLocations == {Point, PyDict(<<>>), PyList(<<>>), PyList(<<PyInt(1), PyInt(1)>>)}

Locations == {PyStr(s) : s \in Strings} \cup StructuredLocations \cup {None}

UrlA == PyStr(<<"h", "t", "t", "p", ":", "/", "/", "a">>)
TitleA == PyStr(<<"A">>)
MarkerX == PyStr(<<"x">>)

\* Rows with all four columns and any location, and rows with a null
\* location that lack some columns or carry null in them.
BuildRows ==
    {[url |-> UrlA, title |-> TitleA, location |-> l, marker |-> MarkerX] :
        l \in Locations}
    \cup {[url |-> UrlA, title |-> TitleA, marker |-> MarkerX],
          [title |-> TitleA, location |-> None, marker |-> None],
          [url |-> UrlA, location |-> Point]}

\* Rows returned by the fetch in the pipeline specification.
PipelineRows ==
    {[url |-> UrlA, title |-> TitleA, location |-> Point, marker |-> MarkerX],
     [url |-> UrlA, title |-> TitleA, location |-> PyStr(<<"[">>), marker |-> MarkerX]}

RECURSIVE SeqsUpTo(_, _)
SeqsUpTo(S, n) ==
    IF n = 0 THEN {<<>>}
    ELSE LET shorter == SeqsUpTo(S, n - 1)
         IN  shorter \cup {Append(s, x) : s \in {q \in shorter : Len(q) = n - 1}, x \in S}

Absent == [by |-> 0, src |-> 0, complete |-> FALSE]
NoObject == [content |-> Absent, uploadedBy |-> 0]
NoEnv == [url |-> None, key |-> None]

InitBuild ==
    /\ pc = "build"
    /\ run = 1
    /\ env = NoEnv
    /\ rows \in {PyList(s) : s \in SeqsUpTo(BuildRows, MaxRows)}
    /\ geojson_data = None
    /\ stderr = {}
    /\ files = [f \in FileNames |-> Absent]
    /\ bucket = NoObject
    /\ calls = <<>>
    /\ returncode = -1
    /\ compiledFrom = Absent
    /\ exc = "none"
    /\ exitStatus = -1
    /\ removeLog = <<>>
    /\ leftover = {}

\* One call of fetch_data_as_geojson on the fetched rows.
Build ==
    /\ pc = "build"
    /\ LET out == fetch_data_as_geojson(rows)
       IN  /\ geojson_data' = out.collection
           /\ stderr' = out.warned
    /\ pc' = "built"
    /\ UNCHANGED <<run, env, rows, files, bucket, calls, returncode,
                   compiledFrom, exc, exitStatus, removeLog, leftover>>

NextBuild == Build

SpecBuild == InitBuild /\ [][NextBuild]_vars

(***************************************************************************)
(* The pipeline: module initialization, main() and its steps.              *)
(***************************************************************************)
Envs == [url : {None, PyStr(<<>>), PyStr(<<"u">>)}, key : {None, PyStr(<<>>), PyStr(<<"k">>)}]

config_ok_any(url, key) == Truthy(url) \/ Truthy(key)

\* all([SUPABASE_URL, SUPABASE_SECRET_KEY])
config_ok(url, key) == Truthy(url) /\ Truthy(key)

Call(step, err) == [step |-> step, err |-> err]

main_next_no_empty_check(step, raised, data) ==
    IF raised THEN "cleanup"
    ELSE CASE step = "fetch" -> "save"
           [] step = "save" -> "tiles"
           [] step = "tiles" -> "upload"
           [] step = "upload" -> "cleanup"

main_next_no_finally(step, raised, data) ==
    IF raised THEN "exited"
    ELSE CASE step = "fetch" ->
                  IF ~DictTruthy(data) \/ ~Truthy(PyList(data.features))
                  THEN "cleanup" ELSE "save"
           [] step = "save" -> "tiles"
           [] step = "tiles" -> "upload"
           [] step = "upload" -> "cleanup"

\* Control flow of main(): where the process goes after `step`, given
\* whether the step raised and the value of geojson_data.  An exception and
\* the early return both enter the finally block.
main_next(step, raised, data) ==
    IF raised THEN "cleanup"
    ELSE CASE step = "fetch" ->
                  IF ~DictTruthy(data) \/ ~Truthy(PyList(data.features))
                  THEN "cleanup" ELSE "save"
           [] step = "save" -> "tiles"
           [] step = "tiles" -> "upload"
           [] step = "upload" -> "cleanup"

\* Module-level initialization: the configuration check and create_client.
\* Either failure calls sys.exit(1) before main() is entered.
ModuleInit ==
    /\ pc = "init"
    /\ IF ~config_ok(env.url, env.key)
       THEN /\ pc' = "exited"
            /\ exitStatus' = 1
            /\ exc' = "SystemExit"
       ELSE \E clientOk \in BOOLEAN :
                IF clientOk
                THEN /\ pc' = "fetch"
                     /\ UNCHANGED <<exitStatus, exc>>
                ELSE /\ pc' = "exited"
                     /\ exitStatus' = 1
                     /\ exc' = "SystemExit"
    /\ UNCHANGED <<run, env, rows, geojson_data, stderr, files, bucket, calls,
                   returncode, compiledFrom, removeLog, leftover>>

\* Step 1 of main(): the query raises, or returns rows that are built into
\* the feature collection.
Fetch ==
    /\ pc = "fetch"
    /\ \/ /\ calls' = Append(calls, Call("fetch", "APIError"))
          /\ exc' = "APIError"
          /\ pc' = main_next("fetch", TRUE, geojson_data)
          /\ UNCHANGED <<rows, geojson_data, stderr>>
       \/ \E r \in SeqsUpTo(PipelineRows, MaxRows) :
              LET out == fetch_data_as_geojson(PyList(r))
              IN  /\ rows' = PyList(r)
                  /\ geojson_data' = out.collection
                  /\ stderr' = out.warned
                  /\ calls' = Append(calls, Call("fetch", "none"))
                  /\ pc' = main_next("fetch", FALSE, out.collection)
                  /\ UNCHANGED exc
    /\ UNCHANGED <<run, env, files, bucket, returncode, compiledFrom,
                   exitStatus, removeLog, leftover>>

open_a(existing, new) ==
    IF existing = Absent THEN new
    ELSE [by |-> new.by, src |-> existing.src, complete |-> FALSE]

\* open(filename, 'w') followed by a complete json.dump: the prior content
\* is truncated away and the file holds the new text.
open_w(existing, new) == new

\* Step 2 of main(): save_geojson_to_file.  open() may raise and leave the
\* file as it was; json.dump may raise after the file was truncated.
Save ==
    /\ pc = "save"
    /\ LET name == OUTPUT_GEOJSON_FILE
           full == [by |-> run, src |-> run, complete |-> TRUE]
           part == [by |-> run, src |-> run, complete |-> FALSE]
       IN  \/ /\ files' = [files EXCEPT ![name] = open_w(files[name], full)]
              /\ calls' = Append(calls, Call("save", "none"))
              /\ pc' = main_next("save", FALSE, geojson_data)
              /\ UNCHANGED exc
           \/ /\ \/ UNCHANGED files
                 \/ files' = [files EXCEPT ![name] = open_w(files[name], part)]
              /\ calls' = Append(calls, Call("save", "OSError"))
              /\ exc' = "OSError"
              /\ pc' = main_next("save", TRUE, geojson_data)
    /\ UNCHANGED <<run, env, rows, geojson_data, stderr, bucket, returncode,
                   compiledFrom, exitStatus, removeLog, leftover>>

check_false(rc) == FALSE

\* subprocess.run(..., check=True): a non-zero exit raises CalledProcessError.
check_raises(rc) == rc # 0

\* What tippecanoe leaves at the output path.  Exit 0: the archive of the
\* input it read.  Non-zero exit: the path as it was, or a partial archive.
tippecanoe_output(existing, input, rc, partial, r) ==
    IF rc = 0 THEN [by |-> r, src |-> input.src, complete |-> input.complete]
    ELSE IF partial THEN [by |-> r, src |-> input.src, complete |-> FALSE]
    ELSE existing

\* Step 3 of main(): generate_tiles.  The subprocess exits with some status;
\* without --force an existing output makes tippecanoe exit non-zero.
Tiles ==
    /\ pc = "tiles"
    /\ \E rc \in {0, 1}, partial \in BOOLEAN :
          /\ (rc = 0 /\ files[OUTPUT_PMTILES_FILE] # Absent) => TIPPECANOE_FORCE
          /\ rc = 0 => ~partial
          /\ returncode' = rc
          /\ compiledFrom' = files[OUTPUT_GEOJSON_FILE]
          /\ files' = [files EXCEPT ![OUTPUT_PMTILES_FILE] =
                          tippecanoe_output(files[OUTPUT_PMTILES_FILE],
                                            files[OUTPUT_GEOJSON_FILE], rc, partial, run)]
          /\ IF check_raises(rc)
             THEN /\ calls' = Append(calls, Call("tiles", "CalledProcessError"))
                  /\ exc' = "CalledProcessError"
                  /\ pc' = main_next("tiles", TRUE, geojson_data)
             ELSE /\ calls' = Append(calls, Call("tiles", "none"))
                  /\ pc' = main_next("tiles", FALSE, geojson_data)
                  /\ UNCHANGED exc
    /\ UNCHANGED <<run, env, rows, geojson_data, stderr, bucket, exitStatus,
                   removeLog, leftover>>

\* Step 4 of main(): upload_to_storage.  open() raises when the archive is
\* absent; the upload itself may raise; every exception is printed and
\* re-raised.  With upsert an existing object is replaced.
Upload ==
    /\ pc = "upload"
    /\ IF files[OUTPUT_PMTILES_FILE] = Absent
       THEN /\ calls' = Append(calls, Call("upload", "FileNotFoundError"))
            /\ exc' = "FileNotFoundError"
            /\ pc' = main_next("upload", TRUE, geojson_data)
            /\ UNCHANGED bucket
       ELSE \E ok \in BOOLEAN :
                IF ok /\ (bucket = NoObject \/ UPLOAD_UPSERT)
                THEN /\ bucket' = [content |-> files[OUTPUT_PMTILES_FILE],
                                   uploadedBy |-> run]
                     /\ calls' = Append(calls, Call("upload", "none"))
                     /\ pc' = main_next("upload", FALSE, geojson_data)
                     /\ UNCHANGED exc
                ELSE /\ calls' = Append(calls, Call("upload", "StorageException"))
                     /\ exc' = "StorageException"
                     /\ pc' = main_next("upload", TRUE, geojson_data)
                     /\ UNCHANGED bucket
    /\ UNCHANGED <<run, env, rows, geojson_data, stderr, files, returncode,
                   compiledFrom, exitStatus, removeLog, leftover>>

\* os.remove(filename): the file is removed, or was not there, or the
\* operating system refuses (fails is the environment's choice).
os_remove(content, fails) ==
    IF content = Absent THEN "FileNotFoundError"
    ELSE IF fails THEN "PermissionError"
    ELSE "removed"

cleanup_escalates_oserror(result) == result = "PermissionError"

\* Whether the try/except around os.remove lets the error out of
\* cleanup_files: FileNotFoundError and every other Exception are caught.
cleanup_escalates(result) == FALSE

CLEANUP_ARGS_geojson_only == <<OUTPUT_GEOJSON_FILE>>

\* The filenames main() passes to cleanup_files, in order.
CLEANUP_ARGS == <<OUTPUT_GEOJSON_FILE, OUTPUT_PMTILES_FILE>>

\* cleanup_files(*filenames): the loop over the filenames.  fails[i] is the
\* environment's choice for the i-th os.remove.
RECURSIVE cleanup_files(_, _, _, _, _)
cleanup_files(filenames, i, fs, fails, log) ==
    IF i > Len(filenames) THEN [files |-> fs, log |-> log, raised |-> "none"]
    ELSE LET name == filenames[i]
             result == os_remove(fs[name], fails[i])
             fs2 == IF result = "removed" THEN [fs EXCEPT ![name] = Absent] ELSE fs
             log2 == Append(log, [file |-> name, result |-> result])
         IN  IF cleanup_escalates(result)
             THEN [files |-> fs2, log |-> log2, raised |-> result]
             ELSE cleanup_files(filenames, i + 1, fs2, fails, log2)

\* Exit status of the interpreter: 1 when an exception left main().
exit_status(e) == IF e = "none" THEN 0 ELSE 1

\* Step 5: the finally block of main(), then the end of the process.  The
\* pending exception, if any, propagates after cleanup_files returns.
Cleanup ==
    /\ pc = "cleanup"
    /\ \E fails \in [1..Len(CLEANUP_ARGS) -> BOOLEAN] :
          LET out == cleanup_files(CLEANUP_ARGS, 1, files, fails, <<>>)
              final == IF out.raised # "none" THEN out.raised ELSE exc
          IN  /\ files' = out.files
              /\ removeLog' = out.log
              /\ calls' = Append(calls, Call("cleanup", out.raised))
              /\ exc' = final
              /\ exitStatus' = exit_status(final)
    /\ pc' = "exited"
    /\ UNCHANGED <<run, env, rows, geojson_data, stderr, bucket, returncode,
                   compiledFrom, leftover>>

\* The script is started again in the same working directory: a new
\* process, with whatever the previous run left on disk and in the bucket.
NewRun ==
    /\ pc = "exited"
    /\ run < MaxRuns
    /\ run' = run + 1
    /\ pc' = "init"
    /\ env' \in Envs
    /\ rows' = None
    /\ geojson_data' = None
    /\ stderr' = {}
    /\ calls' = <<>>
    /\ returncode' = -1
    /\ compiledFrom' = Absent
    /\ exc' = "none"
    /\ exitStatus' = -1
    /\ removeLog' = <<>>
    /\ leftover' = {f \in FileNames : files[f] # Absent}
    /\ UNCHANGED <<files, bucket>>

Init ==
    /\ pc = "init"
    /\ run = 1
    /\ env \in Envs
    /\ rows = None
    /\ geojson_data = None
    /\ stderr = {}
    /\ files = [f \in FileNames |-> Absent]
    /\ bucket = NoObject
    /\ calls = <<>>
    /\ returncode = -1
    /\ compiledFrom = Absent
    /\ exc = "none"
    /\ exitStatus = -1
    /\ removeLog = <<>>
    /\ leftover = {}

Next ==
    \/ ModuleInit
    \/ Fetch
    \/ Save
    \/ Tiles
    \/ Upload
    \/ Cleanup
    \/ NewRun

Spec == Init /\ [][Next]_vars

(***************************************************************************)
(* Properties.                                                             *)
(***************************************************************************)
IsWork(c) == c.step # "cleanup"
Work == SelectSeq(calls, IsWork)
CleanupIdx == {i \in 1..Len(calls) : calls[i].step = "cleanup"}
StepOrder == <<"fetch", "save", "tiles", "upload">>
Fresh(r) == [by |-> r, src |-> r, complete |-> TRUE]
RanPipeline == pc = "exited" /\ calls # <<>>

\* C1: on every exit path of main() once the pipeline has started, cleanup_files
\* has run exactly once, over both fixed filenames, and it is the last step of
\* the run: no fetch, save, tiles or upload step follows it.
C1_CleanupOnceAndLast ==
    /\ \A i \in CleanupIdx : i = Len(calls) /\ pc = "exited"
    /\ RanPipeline =>
          /\ Cardinality(CleanupIdx) = 1
          /\ Len(removeLog) = 2
          /\ {removeLog[i].file : i \in 1..Len(removeLog)} = FileNames

C1_Witness ==
    /\ pc = "exited"
    /\ exc = "CalledProcessError"
    /\ Len(calls) = 4
    /\ calls[4].step = "cleanup"
    /\ Len(removeLog) = 2

\* C2: when the fetch returns no rows the feature list is empty, nothing is
\* written to either local file, tippecanoe is not run, nothing is uploaded,
\* and the run goes to cleanup and ends with no exception and status 0.
C2_EmptyFetchStopsEarly ==
    rows = PyList(<<>>) =>
        /\ geojson_data.features = <<>>
        /\ pc \in {"cleanup", "exited"}
        /\ \A i \in 1..Len(calls) : calls[i].step \in {"fetch", "cleanup"}
        /\ \A f \in FileNames : files[f].by # run
        /\ returncode = -1
        /\ bucket.uploadedBy # run
        /\ exc = "none"
        /\ pc = "exited" => exitStatus = 0

C2_Witness ==
    /\ pc = "exited"
    /\ rows = PyList(<<>>)
    /\ calls = <<Call("fetch", "none"), Call("cleanup", "none")>>
    /\ exitStatus = 0

\* C3: within one run the steps happen at most once each, in the order fetch,
\* save, tiles, upload, each only after every earlier one succeeded; the upload
\* is attempted only after tippecanoe exited 0 in this run, and a non-zero exit
\* ends the run with an error and no further step except cleanup.
C3_StepOrder ==
    /\ Len(Work) <= Len(StepOrder)
    /\ \A i \in 1..Len(Work) : Work[i].step = StepOrder[i]
    /\ \A i \in 1..Len(Work) : i < Len(Work) => Work[i].err = "none"
    /\ (\E i \in 1..Len(calls) : calls[i].step = "upload") => returncode = 0
    /\ returncode \notin {-1, 0} =>
          /\ pc \in {"cleanup", "exited"}
          /\ Len(Work) = 3
          /\ Work[3] = Call("tiles", "CalledProcessError")
          /\ exc = "CalledProcessError"
          /\ pc = "exited" => exitStatus = 1 /\ CleanupIdx # {}

C3_Witness ==
    /\ pc = "exited"
    /\ returncode = 1
    /\ Len(calls) = 4
    /\ calls[3] = Call("tiles", "CalledProcessError")
    /\ calls[4].step = "cleanup"
    /\ exitStatus = 1

ConfigMissing == env.url = None \/ env.key = None
StepFailed == \E i \in 1..Len(calls) : calls[i].err # "none"
Uploaded == \E i \in 1..Len(calls) : calls[i] = Call("upload", "none")

\* C4: the process exits 0 exactly when the run succeeded or returned early on
\* an empty fetch, and non-zero on a missing configuration value or a failed
\* fetch, save, tiles or upload step; with a configuration value missing the
\* process ends before any step, file write, upload or cleanup.
C4_ExitStatus ==
    /\ pc = "exited" =>
          /\ exitStatus \in {0, 1}
          /\ exitStatus = 0 <=>
                /\ ~ConfigMissing
                /\ calls # <<>>
                /\ ~StepFailed
                /\ Uploaded \/ rows = PyList(<<>>)
          /\ StepFailed => exitStatus = 1
    /\ (ConfigMissing /\ pc # "init") =>
          /\ pc = "exited"
          /\ exitStatus = 1
          /\ calls = <<>>
          /\ removeLog = <<>>
          /\ \A f \in FileNames : files[f].by # run
          /\ bucket.uploadedBy # run

C4_Witness ==
    /\ pc = "exited"
    /\ env.url # None
    /\ env.key = None
    /\ exitStatus = 1
    /\ calls = <<>>

\* C5 as claimed: when a run that started the pipeline ends, neither
\* articles.geojson nor articles.pmtiles remains on local disk.
C5_NoFileRemains ==
    RanPipeline => \A f \in FileNames : files[f] = Absent

\* C5 as amended: when a run that started the pipeline ends, a file remains on
\* local disk only if os.remove failed for it with an error other than
\* FileNotFoundError; every other file is gone, and cleanup raised nothing.
C5_NoFileRemainsUnlessRemoveFailed ==
    RanPipeline =>
        /\ \A f \in FileNames :
              files[f] # Absent =>
                  \E i \in 1..Len(removeLog) :
                      removeLog[i] = [file |-> f, result |-> "PermissionError"]
        /\ \A i \in 1..Len(removeLog) :
              removeLog[i].result \in {"removed", "FileNotFoundError"} =>
                  files[removeLog[i].file] = Absent
        /\ calls[Len(calls)] = Call("cleanup", "none")

C5_Witness ==
    /\ RanPipeline
    /\ Len(removeLog) = 2
    /\ removeLog[1] = [file |-> OUTPUT_GEOJSON_FILE, result |-> "removed"]
    /\ removeLog[2] = [file |-> OUTPUT_PMTILES_FILE, result |-> "FileNotFoundError"]
    /\ \A f \in FileNames : files[f] = Absent

\* C6: cleanup never changes the outcome of the run: both removals are
\* attempted in order whatever the first one did, no removal error leaves
\* cleanup_files, and the exception and exit status of the run are those of
\* the last pipeline step.
C6_CleanupNeverEscalates ==
    RanPipeline =>
        /\ Len(removeLog) = 2
        /\ removeLog[1].file = OUTPUT_GEOJSON_FILE
        /\ removeLog[2].file = OUTPUT_PMTILES_FILE
        /\ calls[Len(calls)] = Call("cleanup", "none")
        /\ Len(Work) >= 1
        /\ exc = Work[Len(Work)].err
        /\ exitStatus = IF Work[Len(Work)].err = "none" THEN 0 ELSE 1

C6_Witness ==
    /\ RanPipeline
    /\ Len(removeLog) = 2
    /\ removeLog[1].result = "PermissionError"
    /\ removeLog[2].result = "removed"
    /\ exc = "none"
    /\ exitStatus = 0

BuiltRows == rows.v
BuiltFeatures == geojson_data.features
PropertyKeys == {"url", "title", "marker"}

\* C7: for every row sequence of length N the builder returns exactly N
\* features in input order; feature i has id i (zero-based) and the url, title
\* and marker of row i, None for a field the row lacks; a row whose location
\* is None or absent has geometry None.
C7_OneFeaturePerRow ==
    pc = "built" =>
        /\ geojson_data.type = "FeatureCollection"
        /\ Len(BuiltFeatures) = Len(BuiltRows)
        /\ \A i \in 1..Len(BuiltRows) :
              LET f == BuiltFeatures[i]
                  r == BuiltRows[i]
              IN  /\ f.type = "Feature"
                  /\ f.id = i - 1
                  /\ \A k \in PropertyKeys :
                        f.properties[k] = IF k \in DOMAIN r THEN r[k] ELSE None
                  /\ ("location" \notin DOMAIN r \/ r["location"] = None) =>
                        f.geometry = None

C7_Witness ==
    /\ pc = "built"
    /\ Len(BuiltRows) >= 2
    /\ Len(BuiltFeatures) = Len(BuiltRows)
    /\ "url" \notin DOMAIN BuiltRows[1]
    /\ "location" \in DOMAIN BuiltRows[2]
    /\ BuiltRows[2]["location"] = None
    /\ BuiltFeatures[2].id = 1

\* C8 as claimed: for every row whose location is well formed the geometry is
\* the decoded location: the parsed value for a str holding valid JSON, and the
\* value itself for any structured (non-str, non-None) value, an empty object
\* or empty list included.
C8_WellFormedLocationKept ==
    pc = "built" =>
        \A i \in 1..Len(BuiltRows) :
            LET loc == Get(BuiltRows[i], "location")
                g == BuiltFeatures[i].geometry
            IN  /\ (loc.t = "str" /\ json_loads(loc.v).ok) => g = json_loads(loc.v).val
                /\ loc.t \notin {"str", "NoneType"} => g = loc

\* C9 as claimed: for every row whose location is a str that fails to parse
\* as JSON, the empty string included, the feature is present with geometry
\* None, a diagnostic is printed for that row, and later rows are processed.
C9_MalformedLocationWarned ==
    pc = "built" =>
        /\ Len(BuiltFeatures) = Len(BuiltRows)
        /\ \A i \in 1..Len(BuiltRows) :
              LET loc == Get(BuiltRows[i], "location")
              IN  (loc.t = "str" /\ ~json_loads(loc.v).ok) =>
                      /\ BuiltFeatures[i].geometry = None
                      /\ (i - 1) \in stderr

\* C10: across consecutive runs in one working directory, leftover files
\* included, tippecanoe only ever reads a complete articles.geojson written by
\* the current run from the features fetched in it, and every uploaded archive
\* is the complete archive compiled in the run that uploaded it from that file.
C10_NoStaleArtifact ==
    /\ bucket # NoObject => bucket.content = Fresh(bucket.uploadedBy)
    /\ returncode # -1 => compiledFrom = Fresh(run)
    /\ Uploaded =>
          /\ returncode = 0
          /\ bucket.uploadedBy = run

C10_Witness ==
    /\ run >= 2
    /\ leftover = FileNames
    /\ Uploaded
    /\ bucket = [content |-> Fresh(run), uploadedBy |-> run]

====
